---- MODULE Spec2Model ----
(***************************************************************************)
(* Model of archive-giphy (src/src/main.rs): main runs gifs (cursor        *)
(* pagination) and then download (buffer_unordered pool of download_gif    *)
(* futures).  Strings are sequences of one-character strings, an Option    *)
(* is a sequence of length 0 (None) or 1 (Some), a HashMap is a total      *)
(* function into Options.                                                  *)
(***************************************************************************)
EXTENDS Integers, Sequences, FiniteSets, Bags, TLC

\* ------------------------------------------------------------ bounds
\* Longest cursor chain the feed server holds.
MaxChain == 2
\* Page requests after which a run on a cyclic cursor chain is no longer followed.
MaxRequests == 3
\* Items of the large batch beyond the pool's ceiling.
Extra == 1
\* Failures (transport, decode, file system, non-2xx) the environment injects in all.
MaxFaults == 1
\* Consecutive runs of the program over the same feed and directory.
MaxRuns == 2

\* ------------------------------------------------------------ std helpers
None == <<>>

Some(x) == <<x>>

IsSome(o) == Len(o) = 1

Unwrap(o) == o[1]

\* str::split_once(c): the parts before and after the first c, None without c.
SplitOnce(s, c) ==
  IF \E i \in 1..Len(s) : s[i] = c
  THEN LET i == CHOOSE j \in 1..Len(s) : s[j] = c /\ \A k \in 1..(j - 1) : s[k] # c
       IN  Some(<<SubSeq(s, 1, i - 1), SubSeq(s, i + 1, Len(s))>>)
  ELSE None

\* str::rsplit_once(c): the parts before and after the last c, None without c.
RSplitOnce(s, c) ==
  IF \E i \in 1..Len(s) : s[i] = c
  THEN LET i == CHOOSE j \in 1..Len(s) : s[j] = c /\ \A k \in (j + 1)..Len(s) : s[k] # c
       IN  Some(<<SubSeq(s, 1, i - 1), SubSeq(s, i + 1, Len(s))>>)
  ELSE None

\* str::replace(c, ""): s without its occurrences of c.
RECURSIVE Remove(_, _)
Remove(s, c) ==
  IF s = <<>> THEN <<>>
  ELSE IF Head(s) = c THEN Remove(Tail(s), c)
  ELSE <<Head(s)>> \o Remove(Tail(s), c)

DigitChar(d) == <<"0", "1", "2", "3", "4", "5", "6", "7", "8", "9">>[d + 1]

\* Display of a u64: its decimal digits.
RECURSIVE Decimal(_)
Decimal(n) == IF n < 10 THEN <<DigitChar(n)>> ELSE Decimal(n \div 10) \o <<DigitChar(n % 10)>>

RECURSIVE Zeros(_)
Zeros(k) == IF k <= 0 THEN <<>> ELSE <<"0">> \o Zeros(k - 1)

\* format!("{:012}", n): zero-padded to twelve characters, longer numbers kept whole.
Pad12(n) == Zeros(12 - Len(Decimal(n))) \o Decimal(n)

\* ------------------------------------------------------------ program constants
\* buffer_unordered(20): the ceiling of the download pool.
BufferLimit == 20

\* The range check without its upper end.
IsSuccessNoUpper(code) == code >= 200

\* StatusCode::is_success: 200..=299.
IsSuccess(code) == code >= 200 /\ code <= 299

\* ------------------------------------------------------------ items
\* serde_json::Value leaves of a rendition object.
JStr(s) == [kind |-> "str", s |-> s]

JNum == [kind |-> "num", s |-> <<>>]

\* Value::as_str: the string of a string value, None for any other value.
AsStr(v) == IF v.kind = "str" THEN Some(v.s) ELSE None

\* GiphyGif: id, index_id, images (rendition name -> Option of a rendition object,
\* a rendition object being key -> Option of a leaf), user.username, create_time.
Gif(id, index, user, source, time) ==
  [id |-> id, index_id |-> index, images |-> [source |-> source],
   username |-> user, create_time |-> time]

Rendition(url) == Some([url |-> url])

GoodTime == <<"2", "1", "-", "0", "5", "T", "0", "9">>

GifA == Gif(<<"a">>, 1, <<"u">>, Rendition(Some(JStr(<<"h", "/", "a", ".", "g">>))), GoodTime)

GifB == Gif(<<"b">>, 2, <<"u">>, Rendition(Some(JStr(<<"h", ".", "x", "/", "b", ".", "m">>))), GoodTime)

GifE == Gif(<<"e">>, 3, <<"v">>, Rendition(Some(JStr(<<"h", "/", "e", ".", "g">>))), GoodTime)

GifNoSource == Gif(<<"n">>, 4, <<"u">>, None, GoodTime)

GifNoUrl == Gif(<<"o">>, 5, <<"u">>, Rendition(None), GoodTime)

GifNumUrl == Gif(<<"p">>, 6, <<"u">>, Rendition(Some(JNum)), GoodTime)

GifNoDot == Gif(<<"q">>, 7, <<"u">>, Rendition(Some(JStr(<<"h", "/", "q">>))), GoodTime)

GifNoT == Gif(<<"r">>, 8, <<"u">>, Rendition(Some(JStr(<<"h", "/", "r", ".", "g">>))), <<"2", "1", "-", "0", "5">>)

\* GifA's id, index_id and username under another asset host and another time of day
\* of the same date.
GifA2 == Gif(<<"a">>, 1, <<"u">>, Rendition(Some(JStr(<<"k", "/", "z", ".", "g">>))),
             <<"2", "1", "0", "-", "5", "T", "1">>)

\* GifA's id and index_id under another user.
GifC == Gif(<<"a">>, 1, <<"v">>, Rendition(Some(JStr(<<"h", "/", "a", ".", "g">>))), GoodTime)

\* Two items of distinct ids whose create_time and id hold the '_' of the file name.
GifP1 ==
  Gif(<<"x">>, 2, <<"u">>, Rendition(Some(JStr(<<"h", "/", "x", ".", "g">>))),
      <<"2", "_", "u", "_">> \o Pad12(1) \o <<"T", "0">>)

GifP2 ==
  Gif(<<"u", "_">> \o Pad12(2) \o <<"_", "x">>, 1, <<"u">>,
      Rendition(Some(JStr(<<"k", "/", "y", ".", "g">>))), <<"2", "T", "1">>)

\* ------------------------------------------------------------ planning (_download_gif)
\* gif.images.get("source")?.get("url")?.as_str()
SourceUrl(gif) ==
  LET source == gif.images["source"]
  IN  IF ~IsSome(source) THEN None
      ELSE LET url == Unwrap(source)["url"]
           IN  IF ~IsSome(url) THEN None ELSE AsStr(Unwrap(url))

\* rsplit('.').next() for rsplit_once('.'): a URL without '.' is its own extension.
ExtWholeUrl(gif) ==
  IF ~IsSome(SourceUrl(gif)) THEN None
  ELSE LET parts == RSplitOnce(Unwrap(SourceUrl(gif)), ".")
       IN  IF IsSome(parts) THEN Some(Unwrap(parts)[2]) ELSE SourceUrl(gif)

\* source_url.rsplit_once('.')?.1
Ext(gif) ==
  IF ~IsSome(SourceUrl(gif)) THEN None
  ELSE LET parts == RSplitOnce(Unwrap(SourceUrl(gif)), ".")
       IN  IF IsSome(parts) THEN Some(Unwrap(parts)[2]) ELSE None

\* gif.create_time.split_once('T')?.0.replace('-', "")
Date(gif) ==
  LET parts == SplitOnce(gif.create_time, "T")
  IN  IF IsSome(parts) THEN Some(Remove(Unwrap(parts)[1], "-")) ELSE None

\* The error the ? operators of the planning part return first, "" when none does.
PlanError(gif) ==
  IF ~IsSome(Ext(gif)) THEN "NoSourceVideo"
  ELSE IF ~IsSome(Date(gif)) THEN "InvalidDate"
  ELSE ""

\* The date taken from the whole create_time, the split at 'T' left out.
FilenameRawTime(gif) ==
  Remove(gif.create_time, "-") \o <<"_">> \o gif.username \o <<"_">> \o Pad12(gif.index_id)
    \o <<"_">> \o gif.id \o <<".">> \o Unwrap(Ext(gif))

\* format!("{}_{}_{:012}_{}.{}", date, username, index_id, id, ext)
Filename(gif) ==
  Unwrap(Date(gif)) \o <<"_">> \o gif.username \o <<"_">> \o Pad12(gif.index_id)
    \o <<"_">> \o gif.id \o <<".">> \o Unwrap(Ext(gif))

\* base_dir.join(username), as the path below base_dir.
Dir(gif) == gif.username

\* dir.join(filename)
Path(gif) == <<Dir(gif), Filename(gif)>>

\* ------------------------------------------------------------ environment
\* Status codes the servers answer with.
Statuses == {200, 500}

\* The bytes an asset server sends for a URL under a status: the asset, or an error page.
Body(u, code) == IF IsSuccess(code) THEN <<"asset", u>> ELSE <<"errorpage", u>>

\* What a failed write_all may leave in the file: nothing, or a part of the buffer.
PartialWrites(video) == {<<>>, <<"partial", video[2]>>}

\* Item sequences the feed pages hold, in the order the server deals them out.
ItemLists ==
  << <<GifA>>,
     <<GifNoSource, GifB>>,
     <<GifNoUrl, GifNumUrl, GifNoDot, GifNoT>> >>

\* More items than the pool holds: a fresh item, then copies of an item whose file an
\* earlier run left in the directory.
LargeBatch == <<GifA>> \o [k \in 1..(BufferLimit + Extra - 1) |-> GifE]

\* The results of the n pages of a feed that starts at item list `first`.
Contents(n, first) == [k \in 1..n |-> ItemLists[((first + k - 2) % Len(ItemLists)) + 1]]

\* GiphyResponse of the page at each URL; URLs are 1 (the seed, built from the member
\* id), 2, ...; page k points to k + 1, the last one to nothing or back to the seed.
Chain(contents, cyclic) ==
  [k \in 1..Len(contents) |->
     [next |-> IF k < Len(contents) THEN Some(k + 1)
               ELSE IF cyclic THEN Some(1) ELSE None,
      results |-> contents[k]]]

SmallFeeds ==
  { Chain(Contents(n, first), cyclic) :
      n \in 1..MaxChain, first \in 1..Len(ItemLists), cyclic \in BOOLEAN }

LargeFeed == Chain(<<LargeBatch>>, FALSE)

Feeds == SmallFeeds \cup {LargeFeed}

\* Items for feeds of one page with two items, equal or not in id, date and path.
PairItems == {GifA, GifA2, GifB, GifC, GifP1, GifP2}

PairFeeds == { Chain(<< <<g1, g2>> >>, FALSE) : g1 \in PairItems, g2 \in PairItems }

SeedUrl == 1

RECURSIVE Concat(_, _)
\* The items of pages 1..n of a feed, in page order.
Concat(f, n) == IF n = 0 THEN <<>> ELSE Concat(f, n - 1) \o f[n].results

\* ------------------------------------------------------------ state
VARIABLES
  feed,        \* the feed server's pages (never changes: the item set is unchanged)
  dirs,        \* directories below base_dir
  files,       \* path -> contents of the files below base_dir
  run,         \* number of the current run of the program
  faults,      \* failures the environment may still inject
  pc,          \* where main is: start, page_send, page_text, download, exit_ok, exit_err
  url,         \* gifs: the URL of the current page request
  gifs,        \* gifs: the accumulated items; download: the item list
  err,         \* the error main returns, None while none
  pageLog,     \* page requests of this run in issue order, each with its response
  stream_pos,  \* download: position of the next item the stream iterator yields
  in_progress, \* download: the bag of futures buffer_unordered holds
  results,     \* download: the collected outcomes, in completion order
  reports,     \* download: failure reports written to stderr
  assetReqs,   \* asset GETs issued in this run: bag of <<item id, url>>
  fsOps,       \* kinds of file system operations performed in this run
  start,       \* dirs and files as they were when this run started, and how the
               \* run before it ended
  last         \* the last step taken

vars == <<feed, dirs, files, run, faults, pc, url, gifs, err, pageLog, stream_pos,
          in_progress, results, reports, assetReqs, fsOps, start, last>>

NoStep == [op |-> "none", gif |-> None, out |-> ""]

Step(op, g, out) == [op |-> op, gif |-> g, out |-> out]

\* GiphyError / reqwest / serde / io errors as main or a task returns them.
Error(kind, code, u) == [kind |-> kind, code |-> code, url |-> u]

\* A download_gif future suspended at an await of _download_gif.
Task(g, at, code, video) == [gif |-> g, pc |-> at, status |-> code, video |-> video]

\* Result<()> of download_gif; an Err carries the context "id: <id>".
Outcome(g, res) == [id |-> g.id, res |-> res]

RunInit ==
  /\ pc = "start"
  /\ url = SeedUrl
  /\ gifs = <<>>
  /\ err = None
  /\ pageLog = <<>>
  /\ stream_pos = 1
  /\ in_progress = EmptyBag
  /\ results = <<>>
  /\ reports = <<>>
  /\ assetReqs = EmptyBag
  /\ fsOps = {}
  /\ last = NoStep

Init ==
  /\ feed \in Feeds
  /\ dirs = {Dir(GifE)}
  /\ files = (Path(GifE) :> Body(Unwrap(SourceUrl(GifE)), 200))
  /\ run = 1
  /\ faults = MaxFaults
  /\ start = [dirs |-> dirs, files |-> files, prev |-> "none"]
  /\ RunInit

\* The program started on a feed of one page with two items.
InitPairs ==
  /\ feed \in PairFeeds
  /\ dirs = {Dir(GifE)}
  /\ files = (Path(GifE) :> Body(Unwrap(SourceUrl(GifE)), 200))
  /\ run = 1
  /\ faults = MaxFaults
  /\ start = [dirs |-> dirs, files |-> files, prev |-> "none"]
  /\ RunInit

\* ------------------------------------------------------------ download: the pool
\* The stderr lines of download's loop over the results: one report per Err.
Reports(res) == SelectSeq(res, LAMBDA r : r.res # "Ok")

\* The guard with <= for <: one future more than the ceiling is pulled.
HasRoomOffByOne(queue) == BagCardinality(queue) <= BufferLimit

\* buffer_unordered's guard for pulling the next future from the stream.
HasRoom(queue) == BagCardinality(queue) < BufferLimit

\* The iterator walked from the back (into_iter().rev()).
NextItemFromBack(list, pos) == list[Len(list) - pos + 1]

\* gifs.into_iter(): the item the stream yields at its position.
NextItem(list, pos) == list[pos]

RECURSIVE Fill(_, _, _, _)
\* collect polling buffer_unordered until every future it holds is pending: futures
\* are pulled from the stream in item order while there is room and polled; a future
\* whose planning fails is ready at once and frees its slot, any other one has
\* issued create_dir_all and waits for it.
Fill(list, pos, queue, res) ==
  IF HasRoom(queue) /\ pos <= Len(list)
  THEN LET g == NextItem(list, pos)
       IN  IF PlanError(g) # ""
           THEN Fill(list, pos + 1, queue, Append(res, Outcome(g, PlanError(g))))
           ELSE Fill(list, pos + 1, queue (+) SetToBag({Task(g, "mkdir", 0, <<>>)}), res)
  ELSE [pos |-> pos, queue |-> queue, results |-> res]

\* The failures reported as the results come in, not after collect has returned.
SettleReportEarly(list, pos, queue, res) ==
  LET f == Fill(list, pos, queue, res)
  IN  /\ stream_pos' = f.pos
      /\ in_progress' = f.queue
      /\ results' = f.results
      /\ reports' = Reports(f.results)
      /\ pc' = IF f.queue = EmptyBag THEN "exit_ok" ELSE "download"

\* download returning an error to main when a result is an Err.
SettleFailing(list, pos, queue, res) ==
  LET f == Fill(list, pos, queue, res)
  IN  /\ stream_pos' = f.pos
      /\ in_progress' = f.queue
      /\ results' = f.results
      /\ IF f.queue = EmptyBag
         THEN /\ reports' = Reports(f.results)
              /\ pc' = IF Reports(f.results) = <<>> THEN "exit_ok" ELSE "exit_err"
         ELSE /\ reports' = reports
              /\ pc' = "download"

\* download up to its next suspension: the pool refilled, and once the stream is
\* exhausted and no future is left, the results reported and Ok(()) returned to main.
Settle(list, pos, queue, res) ==
  LET f == Fill(list, pos, queue, res)
  IN  /\ stream_pos' = f.pos
      /\ in_progress' = f.queue
      /\ results' = f.results
      /\ IF f.queue = EmptyBag
         THEN /\ reports' = Reports(f.results)
              /\ pc' = "exit_ok"
         ELSE /\ reports' = reports
              /\ pc' = "download"

\* The first Err ending the pool (as try_collect would): the futures in flight are
\* dropped and the items not yet started never start.
CompleteFailFast(t, res) ==
  IF res = "Ok"
  THEN Settle(gifs, stream_pos, in_progress (-) SetToBag({t}),
              Append(results, Outcome(t.gif, res)))
  ELSE /\ in_progress' = EmptyBag
       /\ results' = Append(results, Outcome(t.gif, res))
       /\ reports' = Reports(results')
       /\ stream_pos' = stream_pos
       /\ pc' = "exit_ok"

\* The pool never refilled: the items beyond the first futures never start.
CompleteNoRefill(t, res) ==
  /\ in_progress' = in_progress (-) SetToBag({t})
  /\ results' = Append(results, Outcome(t.gif, res))
  /\ stream_pos' = stream_pos
  /\ IF in_progress' = EmptyBag
     THEN /\ reports' = Reports(results')
          /\ pc' = "exit_ok"
     ELSE /\ reports' = reports
          /\ pc' = "download"

\* A future returned: its output is collected and its slot is free.
Complete(t, res) ==
  Settle(gifs, stream_pos, in_progress (-) SetToBag({t}), Append(results, Outcome(t.gif, res)))

\* A future went on to its next await.
Suspend(t, t2) ==
  /\ in_progress' = (in_progress (-) SetToBag({t})) (+) SetToBag({t2})
  /\ UNCHANGED <<stream_pos, results, reports, pc>>

Fault == faults > 0 /\ faults' = faults - 1

NoFault == faults' = faults

\* ------------------------------------------------------------ gifs
\* A page request as the network sees it: its URL, then what came back (the status
\* code, 0 when no response arrived, and how far the response got).
LogRequest(log, u) == Append(log, [url |-> u, code |-> 0, resp |-> "pending"])

LogResponse(log, code, resp) ==
  [log EXCEPT ![Len(log)] = [url |-> log[Len(log)].url, code |-> code, resp |-> resp]]

\* The accumulator overwritten by each page instead of extended.
AccumulateReplace(acc, page) == page.results

\* gifs.append(&mut giphy_resp.results)
Accumulate(acc, page) == acc \o page.results

\* A failed page ending the loop with the items accumulated so far, which main
\* hands to download.
BailPartial(e, code, resp) ==
  /\ err' = Some(e)
  /\ gifs' = gifs
  /\ url' = url
  /\ pageLog' = LogResponse(pageLog, code, resp)
  /\ Settle(gifs, 1, EmptyBag, <<>>)

\* main returns the error of gifs: the accumulated items are dropped.
Bail(e, code, resp) ==
  /\ err' = Some(e)
  /\ pc' = "exit_err"
  /\ gifs' = <<>>
  /\ pageLog' = LogResponse(pageLog, code, resp)
  /\ UNCHANGED <<url, stream_pos, in_progress, results, reports>>

\* main calls gifs, which sends the request for the seed URL.
GifsStart ==
  /\ pc = "start"
  /\ pc' = "page_send"
  /\ pageLog' = LogRequest(pageLog, url)
  /\ last' = Step("GifsStart", None, "")
  /\ UNCHANGED <<feed, dirs, files, run, faults, url, gifs, err, stream_pos, in_progress,
                 results, reports, assetReqs, fsOps, start>>

\* client.get(&url).send().await? and the status check.
PageSendDone ==
  /\ pc = "page_send"
  /\ \/ /\ Fault
        /\ Bail(Error("Transport", 0, url), 0, "transport")
        /\ last' = Step("PageSendDone", None, "transport")
     \/ \E code \in Statuses :
          IF IsSuccess(code)
          THEN /\ NoFault
               /\ pc' = "page_text"
               /\ last' = Step("PageSendDone", None, "success")
               /\ pageLog' = LogResponse(pageLog, code, "status")
               /\ UNCHANGED <<url, gifs, err, stream_pos, in_progress, results, reports>>
          ELSE /\ Fault
               /\ Bail(Error("ResponseError", code, url), code, "status")
               /\ last' = Step("PageSendDone", None, "status")
  /\ UNCHANGED <<feed, dirs, files, run, assetReqs, fsOps, start>>

\* The loop leaving after its first page, whatever next holds.
MoreToComeNever(page) == FALSE

\* The loop also leaving when the cursor leads back to the seed URL.
MoreToComeUntilSeed(page) == IsSome(page.next) /\ Unwrap(page.next) # SeedUrl

\* The cursor dropped: the URL just fetched is requested again.
NextUrlStale(page, cur) == cur

\* Some(u) => url = u
NextUrl(page, cur) == Unwrap(page.next)

\* match giphy_resp.next: Some(u) goes on with u, None breaks.
MoreToCome(page) == IsSome(page.next)

\* resp.text().await?, serde_json::from_str(&text)?, the append and the match on next;
\* after the break gifs returns and main runs download up to its first suspension.
PageTextDone ==
  /\ pc = "page_text"
  /\ \/ /\ Fault
        /\ Bail(Error("Transport", 0, url), pageLog[Len(pageLog)].code, "transport")
        /\ last' = Step("PageTextDone", None, "transport")
     \/ /\ Fault
        /\ Bail(Error("Decode", 0, url), pageLog[Len(pageLog)].code, "decode")
        /\ last' = Step("PageTextDone", None, "decode")
     \/ LET page == feed[url]
        IN  /\ NoFault
            /\ gifs' = Accumulate(gifs, page)
            /\ err' = err
            /\ IF MoreToCome(page)
               THEN /\ Len(pageLog) < MaxRequests
                    /\ url' = NextUrl(page, url)
                    /\ pageLog' = LogRequest(LogResponse(pageLog, pageLog[Len(pageLog)].code, "ok"), url')
                    /\ pc' = "page_send"
                    /\ last' = Step("PageTextDone", None, "next")
                    /\ UNCHANGED <<stream_pos, in_progress, results, reports>>
               ELSE /\ url' = url
                    /\ pageLog' = LogResponse(pageLog, pageLog[Len(pageLog)].code, "ok")
                    /\ last' = Step("PageTextDone", None, "last")
                    /\ Settle(gifs', 1, EmptyBag, <<>>)
  /\ UNCHANGED <<feed, dirs, files, run, assetReqs, fsOps, start>>

\* ------------------------------------------------------------ _download_gif
TasksAt(at) == {t \in BagToSet(in_progress) : t.pc = at}

\* The existence check left out: every item is downloaded.
ExistsNever(path) == FALSE

\* The check taking an empty file for a missing one.
ExistsNonEmpty(path) == path \in DOMAIN files /\ files[path] # <<>>

\* path.exists()
Exists(path) == path \in DOMAIN files

\* The request sent again after its first attempt.
IssueGetTwice(reqs, g) ==
  reqs (+) SetToBag({<<g.id, Unwrap(SourceUrl(g))>>}) (+) SetToBag({<<g.id, Unwrap(SourceUrl(g))>>})

\* client.get(source_url).send(): one asset GET on the network.
IssueGet(reqs, g) == reqs (+) SetToBag({<<g.id, Unwrap(SourceUrl(g))>>})

\* fs::create_dir_all(&dir).await? completed; then the existence check, which
\* returns Ok(()) for a file that is there, and otherwise the asset request.
MkdirDone ==
  /\ pc = "download"
  /\ \E t \in TasksAt("mkdir") :
       \/ /\ Fault
          /\ Complete(t, "Io")
          /\ last' = Step("MkdirDone", Some(t.gif), "io")
          /\ UNCHANGED <<dirs, assetReqs>>
       \/ /\ NoFault
          /\ dirs' = dirs \cup {Dir(t.gif)}
          /\ IF Exists(Path(t.gif))
             THEN /\ Complete(t, "Ok")
                  /\ last' = Step("MkdirDone", Some(t.gif), "exists")
                  /\ UNCHANGED assetReqs
             ELSE /\ Suspend(t, Task(t.gif, "send", 0, <<>>))
                  /\ assetReqs' = IssueGet(assetReqs, t.gif)
                  /\ last' = Step("MkdirDone", Some(t.gif), "get")
  /\ fsOps' = fsOps \cup {"mkdir"}
  /\ UNCHANGED <<feed, files, run, url, gifs, err, pageLog, start>>

\* client.get(source_url).send().await?: a transport error returns, a response of
\* any status goes on to read the body.
SendDone ==
  /\ pc = "download"
  /\ \E t \in TasksAt("send") :
       \/ /\ Fault
          /\ Complete(t, "Transport")
          /\ last' = Step("SendDone", Some(t.gif), "transport")
       \/ \E code \in Statuses :
            /\ IF IsSuccess(code) THEN NoFault ELSE Fault
            /\ Suspend(t, Task(t.gif, "bytes", code, <<>>))
            /\ last' = Step("SendDone", Some(t.gif), IF IsSuccess(code) THEN "success" ELSE "status")
  /\ UNCHANGED <<feed, dirs, files, run, url, gifs, err, pageLog, assetReqs, fsOps, start>>

\* .bytes().await? completed; then fs::File::create(&path) is called.
BytesDone ==
  /\ pc = "download"
  /\ \E t \in TasksAt("bytes") :
       \/ /\ Fault
          /\ Complete(t, "Transport")
          /\ last' = Step("BytesDone", Some(t.gif), "transport")
       \/ /\ NoFault
          /\ Suspend(t, Task(t.gif, "create", t.status, Body(Unwrap(SourceUrl(t.gif)), t.status)))
          /\ last' = Step("BytesDone", Some(t.gif), "ok")
  /\ UNCHANGED <<feed, dirs, files, run, url, gifs, err, pageLog, assetReqs, fsOps, start>>

\* fs::File::create(&path).await? completed: the file is created or truncated; then
\* write_all is called.
CreateDone ==
  /\ pc = "download"
  /\ \E t \in TasksAt("create") :
       \/ /\ Fault
          /\ Complete(t, "Io")
          /\ last' = Step("CreateDone", Some(t.gif), "io")
          /\ UNCHANGED files
       \/ /\ NoFault
          /\ files' = (Path(t.gif) :> <<>>) @@ files
          /\ Suspend(t, Task(t.gif, "write", t.status, t.video))
          /\ last' = Step("CreateDone", Some(t.gif), "ok")
  /\ fsOps' = fsOps \cup {"create"}
  /\ UNCHANGED <<feed, dirs, run, url, gifs, err, pageLog, assetReqs, start>>

\* buffer.write_all(&video).await? completed; Ok(()) after the whole buffer is written.
WriteDone ==
  /\ pc = "download"
  /\ \E t \in TasksAt("write") :
       \/ /\ Fault
          /\ \E left \in PartialWrites(t.video) : files' = (Path(t.gif) :> left) @@ files
          /\ Complete(t, "Io")
          /\ last' = Step("WriteDone", Some(t.gif), "io")
       \/ /\ NoFault
          /\ files' = (Path(t.gif) :> t.video) @@ files
          /\ Complete(t, "Ok")
          /\ last' = Step("WriteDone", Some(t.gif), "ok")
  /\ fsOps' = fsOps \cup {"write"}
  /\ UNCHANGED <<feed, dirs, run, url, gifs, err, pageLog, assetReqs, start>>

\* ------------------------------------------------------------ runs
\* The program is invoked again for the same member and directory.
Rerun ==
  /\ pc \in {"exit_ok", "exit_err"}
  /\ run < MaxRuns
  /\ run' = run + 1
  /\ start' = [dirs |-> dirs, files |-> files, prev |-> pc]
  /\ pc' = "start"
  /\ url' = SeedUrl
  /\ gifs' = <<>>
  /\ err' = None
  /\ pageLog' = <<>>
  /\ stream_pos' = 1
  /\ in_progress' = EmptyBag
  /\ results' = <<>>
  /\ reports' = <<>>
  /\ assetReqs' = EmptyBag
  /\ fsOps' = {}
  /\ last' = NoStep
  /\ UNCHANGED <<feed, dirs, files, faults>>

Next ==
  \/ GifsStart
  \/ PageSendDone
  \/ PageTextDone
  \/ MkdirDone
  \/ SendDone
  \/ BytesDone
  \/ CreateDone
  \/ WriteDone
  \/ Rerun

Spec == Init /\ [][Next]_vars

SpecPairs == InitPairs /\ [][Next]_vars

\* A step of the run in progress: an awaited network or file operation completes and
\* the runtime polls the future it wakes.
Progress ==
  \/ GifsStart
  \/ PageSendDone
  \/ PageTextDone
  \/ MkdirDone
  \/ SendDone
  \/ BytesDone
  \/ CreateDone
  \/ WriteDone

\* Every awaited operation completes (the client's 30 s timeout ends a request that
\* hangs) and a woken future is polled; invoking the program again is up to the user.
FairSpec == Init /\ [][Next]_vars /\ WF_vars(Progress)

TypeOK ==
  /\ pc \in {"start", "page_send", "page_text", "download", "exit_ok", "exit_err"}
  /\ run \in 1..MaxRuns
  /\ faults \in 0..MaxFaults

\* ------------------------------------------------------------ properties
RECURSIVE LogItems(_)
\* The items of the pages requested so far in this run, in request order.
LogItems(n) == IF n = 0 THEN <<>> ELSE LogItems(n - 1) \o feed[pageLog[n].url].results

\* Every page request of this run was answered and decoded, the last page held no
\* next cursor, and the item list holds the items of all the pages.
PaginationFinished ==
  /\ pageLog # <<>>
  /\ \A k \in 1..Len(pageLog) : pageLog[k].resp = "ok"
  /\ feed[pageLog[Len(pageLog)].url].next = None
  /\ gifs = LogItems(Len(pageLog))

\* An asset GET, a file system operation or a future of the download phase.
DownloadActivity ==
  \/ assetReqs # EmptyBag
  \/ fsOps # {}
  \/ in_progress # EmptyBag
  \/ results # <<>>
  \/ dirs # start.dirs
  \/ files # start.files

\* C1: no asset GET, directory creation or file write happens before pagination has
\* finished successfully (a page without next cursor received, the list complete).
C1_DownloadAfterPagination == DownloadActivity => PaginationFinished

\* A run in which the download phase works on the items of a two-page chain.
C1_Witness ==
  /\ Len(pageLog) = 2
  /\ assetReqs # EmptyBag
  /\ "write" \in fsOps

\* C2: at most 20 download tasks have started and not yet produced their outcome,
\* also for item lists of 21 and more items.
C2_AtMostTwentyInFlight == BagCardinality(in_progress) <= 20

\* Twenty futures in flight, among them one waiting for its asset, while the item
\* list of more than twenty items still holds an item that has not started.
C2_Witness ==
  /\ Len(gifs) >= 21
  /\ BagCardinality(in_progress) = 20
  /\ stream_pos <= Len(gifs)
  /\ \E t \in BagToSet(in_progress) : t.pc = "send"

HasChar(str, c) == \E i \in 1..Len(str) : str[i] = c

\* The planning failures of an item, read off the item: no "source" rendition, no
\* string "url" in it, no '.' in the URL, no 'T' in create_time.
PlanningFails(g) ==
  \/ g.images["source"] = None
  \/ g.images["source"][1]["url"] = None
  \/ g.images["source"][1]["url"][1].kind # "str"
  \/ ~HasChar(g.images["source"][1]["url"][1].s, ".")
  \/ ~HasChar(g.create_time, "T")

Count(seq, id) == Cardinality({k \in 1..Len(seq) : seq[k].id = id})

\* Every item the stream has yielded is in flight or has its outcome; at the end every
\* item of the list has exactly one.
OneOutcomePerItem ==
  /\ pc \in {"download", "exit_ok"} =>
       /\ Len(results) + BagCardinality(in_progress) = stream_pos - 1
       /\ \A k \in 1..Len(gifs) : Count(results, gifs[k].id) <= Count(gifs, gifs[k].id)
  /\ pc = "exit_ok" =>
       /\ Len(results) = Len(gifs)
       /\ \A k \in 1..Len(gifs) : Count(results, gifs[k].id) = Count(gifs, gifs[k].id)

\* A step of the download phase touches no future but the one it resumes, and an Err
\* it adds to the results is the planning failure of the item named in it or the
\* failure of the operation the resumed future was waiting for.
StepIsolated ==
  /\ \A t \in BagToSet(in_progress) :
       \/ last'.gif = Some(t.gif)
       \/ CopiesIn(t, in_progress') >= CopiesIn(t, in_progress)
  /\ BagCardinality(in_progress) > 0 =>
       BagCardinality(in_progress') >= BagCardinality(in_progress) - 1
  /\ \A k \in (Len(results) + 1)..Len(results') :
       \/ results'[k].res = "Ok"
       \/ \E i \in 1..Len(gifs') : gifs'[i].id = results'[k].id /\ PlanningFails(gifs'[i])
       \/ /\ last'.gif # None
          /\ last'.gif[1].id = results'[k].id
          /\ last'.out \in {"io", "transport"}
          /\ k = Len(results) + 1

\* C3: a Failed outcome of one item never cancels or prevents another item's task:
\* at the end of the download phase there is exactly one outcome per item, and an
\* item none of whose own steps fails ends Ok (downloaded or skipped).
C3_FailureIsolation == []OneOutcomePerItem /\ [][StepIsolated]_vars

\* The phase ended after a planning failure and a failed operation of one item, and
\* another item's file was written after them.
C3_Witness ==
  /\ pc = "exit_ok"
  /\ Len(results) >= 3
  /\ results[1].res = "NoSourceVideo"
  /\ results[2].res \in {"Io", "Transport"}
  /\ results[3].res = "Ok"
  /\ last.op = "WriteDone"

\* C4: a task that finds its destination file present at the existence check issues
\* no asset GET, leaves the files as they are and returns Ok.
C4_SkipIfPresent ==
  [][(/\ last'.op = "MkdirDone"
      /\ last'.out # "io"
      /\ last'.gif # None
      /\ Path(last'.gif[1]) \in DOMAIN files)
     => (/\ assetReqs' = assetReqs
         /\ files' = files
         /\ Len(results') > Len(results)
         /\ results'[Len(results) + 1] = Outcome(last'.gif[1], "Ok"))]_vars

\* A second run skipped the item whose file the first run wrote.
C4_Witness ==
  /\ run = 2
  /\ Path(GifA) \in DOMAIN start.files
  /\ last.op = "MkdirDone"
  /\ last.gif = Some(GifA)
  /\ results # <<>>
  /\ results[Len(results)] = Outcome(GifA, "Ok")

\* A file exists at the destination of every item of the feed that passes planning.
AllPresent(fs) ==
  \A g \in UNION { {feed[k].results[i] : i \in 1..Len(feed[k].results)} : k \in 1..Len(feed) } :
    PlanningFails(g) \/ Path(g) \in DOMAIN fs

\* C5 as stated: a run after a completed run over the same items issues no asset GET
\* and ends with the files the earlier run left.
C5_AnySecondRunIdle ==
  (run >= 2 /\ start.prev = "exit_ok") =>
    /\ assetReqs = EmptyBag
    /\ pc \in {"exit_ok", "exit_err"} => files = start.files

\* C5, amended: when the earlier run left a file at the destination of every item
\* that passes planning, the next run over the same items issues no asset GET and
\* the files and their contents stay those the earlier run left.
C5_IdempotentWhenPopulated ==
  (run >= 2 /\ AllPresent(start.files)) =>
    /\ assetReqs = EmptyBag
    /\ files = start.files
    /\ fsOps \subseteq {"mkdir"}

\* A second run over the directory the first run populated went through its download
\* phase.
C5_Witness ==
  /\ run = 2
  /\ AllPresent(start.files)
  /\ start.prev = "exit_ok"
  /\ pc = "exit_ok"
  /\ \E k \in 1..Len(results) : results[k] = Outcome(GifB, "Ok")
  /\ start.files[Path(GifB)] = <<"asset", Unwrap(SourceUrl(GifB))>>

\* C6: on a chain of n pages of which only the last has no next cursor, all answered
\* and decoded, gifs returns the concatenation of the pages' items in page order after
\* exactly n requests.
C6_ConcatenationInPageOrder ==
  (pc \in {"download", "exit_ok"} /\ feed[Len(feed)].next = None) =>
    /\ gifs = Concat(feed, Len(feed))
    /\ Len(pageLog) = Len(feed)
    /\ \A k \in 1..Len(pageLog) : pageLog[k].url = k

\* gifs returned the items of a two-page chain.
C6_Witness ==
  /\ pc = "download"
  /\ Len(feed) = 2
  /\ Len(pageLog) = 2
  /\ Len(gifs) = 5

\* C7: a page response with a non-2xx status ends gifs at once with ResponseError
\* carrying that status and the requested URL; it is the last page request.
C7_StatusErrorEndsPagination ==
  \A k \in 1..Len(pageLog) :
    (pageLog[k].resp # "pending" /\ pageLog[k].code # 0
       /\ ~(pageLog[k].code >= 200 /\ pageLog[k].code <= 299)) =>
      /\ k = Len(pageLog)
      /\ pc = "exit_err"
      /\ err = Some(Error("ResponseError", pageLog[k].code, pageLog[k].url))

\* The second page of a chain was answered with status 500.
C7_Witness ==
  /\ Len(pageLog) = 2
  /\ pageLog[2].code = 500
  /\ pageLog[2].url = 2
  /\ pc = "exit_err"

\* A page request of this run failed: no response, a non-2xx status, an unreadable or
\* an undecodable body.
PageFailed ==
  \E k \in 1..Len(pageLog) :
    \/ pageLog[k].resp \in {"transport", "decode"}
    \/ pageLog[k].resp # "pending" /\ pageLog[k].code # 0
         /\ ~(pageLog[k].code >= 200 /\ pageLog[k].code <= 299)

\* C8: a failed page fetch, on any page, ends the run in an error, drops the items
\* accumulated so far and keeps the download phase from being entered.
C8_PaginationFailureIsFatal ==
  PageFailed =>
    /\ pc = "exit_err"
    /\ err # None
    /\ gifs = <<>>
    /\ ~DownloadActivity
    /\ reports = <<>>

\* The body of the second page could not be decoded after the first page's items
\* had been accumulated.
C8_Witness ==
  /\ Len(pageLog) = 2
  /\ pageLog[1].resp = "ok"
  /\ feed[1].results # <<>>
  /\ pageLog[2].resp = "decode"
  /\ pc = "exit_err"

\* C9: an item whose planning fails gets a Failed outcome as soon as its task runs,
\* is never in flight, and no asset GET is issued for it.
C9_PlanningFailureNoGet ==
  \A k \in 1..Len(gifs) :
    PlanningFails(gifs[k]) =>
      /\ \A r \in BagToSet(assetReqs) : r[1] # gifs[k].id
      /\ \A t \in BagToSet(in_progress) : t.gif # gifs[k]
      /\ (k < stream_pos /\ pc \in {"download", "exit_ok"}) =>
           \E j \in 1..Len(results) : results[j].id = gifs[k].id /\ results[j].res # "Ok"

\* A download phase ended with the four kinds of planning failure recorded.
C9_Witness ==
  /\ pc = "exit_ok"
  /\ \A g \in {GifNoUrl, GifNumUrl, GifNoDot} :
       \E j \in 1..Len(results) : results[j] = Outcome(g, "NoSourceVideo")
  /\ \E j \in 1..Len(results) : results[j] = Outcome(GifNoT, "InvalidDate")
  /\ \E j \in 1..Len(results) : results[j] = Outcome(GifNoSource, "NoSourceVideo")
  /\ \E j \in 1..Len(results) : results[j] = Outcome(GifB, "Ok")

\* C10: an asset response with a non-2xx status fails its item, and its body does
\* not become the contents of the destination file.
C10_AssetStatusErrorFailsItem ==
  /\ (last.op = "SendDone" /\ last.out = "status") =>
       /\ \E j \in 1..Len(results) : results[j].id = last.gif[1].id /\ results[j].res # "Ok"
       /\ \A t \in BagToSet(in_progress) : t.gif # last.gif[1]
  /\ \A path \in DOMAIN files : files[path] = <<>> \/ files[path][1] # "errorpage"

\* C11: once a file exists at a destination path, no task creates, truncates or
\* writes it again: File::create never completes on a path that exists, and
\* write_all only fills the file its task has just created.
C11_NeverOverwritten ==
  [][/\ (last'.op = "CreateDone" /\ last'.out = "ok") =>
          Path(last'.gif[1]) \notin DOMAIN files
     /\ (last'.op = "WriteDone") =>
          /\ Path(last'.gif[1]) \in DOMAIN files
          /\ files[Path(last'.gif[1])] = <<>>
     /\ \A path \in DOMAIN files :
          /\ path \in DOMAIN files'
          /\ files[path] # <<>> => files'[path] = files[path]]_vars

\* What the destination path is said to depend on.
PathInputs(g) == <<Date(g), g.username, g.index_id, g.id, Ext(g)>>

\* The items of the list that pass planning.
Plannable == {k \in 1..Len(gifs) : ~PlanningFails(gifs[k])}

C19_FailedLeavesNoFile ==
  \A k \in 1..Len(results) : \A i \in Plannable :
    (results[k].res # "Ok" /\ gifs[i].id = results[k].id /\ Path(gifs[i]) \in DOMAIN files)
      => Path(gifs[i]) \in DOMAIN start.files

\* C12: a failure report exists only in states where download has returned: every
\* item of the list has its outcome, the stream is exhausted and no task is in flight.
C12_ReportAfterDrain ==
  reports # <<>> =>
    /\ pc = "exit_ok"
    /\ in_progress = EmptyBag
    /\ stream_pos = Len(gifs) + 1
    /\ Len(results) = Len(gifs)
    /\ reports = Reports(results)

\* A run of three items reported its failures next to an item that ended Ok.
C12_Witness ==
  /\ pc = "exit_ok"
  /\ Len(gifs) = 3
  /\ reports # <<>>
  /\ \E k \in 1..Len(results) : results[k].res = "Ok"

\* C13: once pagination has succeeded the run is in its download phase or has ended
\* successfully, and no error is returned to main, whatever the outcomes are.
C13_ItemFailuresNotFatal ==
  PaginationFinished => /\ pc \in {"download", "exit_ok"}
                        /\ err = None

\* Every item of a list of several items failed and the run ended successfully.
C13_Witness ==
  /\ pc = "exit_ok"
  /\ Len(gifs) >= 2
  /\ Len(results) = Len(gifs)
  /\ Len(reports) = Len(gifs)
  /\ \A k \in 1..Len(results) : results[k].res # "Ok"

\* C15: the page requests form one sequence: the first goes to the seed URL, every
\* later one is issued after the one before was answered and decoded and goes to that
\* page's next cursor; so only the last request can be outstanding.
C15_SequentialFetch ==
  \A k \in 1..Len(pageLog) :
    /\ k = 1 => pageLog[k].url = SeedUrl
    /\ k > 1 => /\ pageLog[k - 1].resp = "ok"
                /\ IsSome(feed[pageLog[k - 1].url].next)
                /\ pageLog[k].url = Unwrap(feed[pageLog[k - 1].url].next)
    /\ pageLog[k].resp \in {"pending", "status"} => k = Len(pageLog)

\* The second page is requested at the cursor of the decoded first page.
C15_Witness ==
  /\ Len(pageLog) = 2
  /\ pageLog[1].resp = "ok"
  /\ pageLog[2].url = 2
  /\ pageLog[2].resp = "pending"
  /\ gifs # <<>>

\* The items of the list that an asset GET of this id and URL belongs to.
ItemsOf(r) == {k \in 1..Len(gifs) : gifs[k].id = r[1] /\ SourceUrl(gifs[k]) = Some(r[2])}

\* The page requests that were decoded and held a next cursor.
Followed == {k \in 1..Len(pageLog) : pageLog[k].resp = "ok" /\ IsSome(feed[pageLog[k].url].next)}

\* C16: no request is repeated: an item causes at most one asset GET, there is one page
\* GET for the seed URL and one for every cursor followed, and a failed page request is
\* the last one of its run.
C16_NoRetry ==
  /\ \A r \in BagToSet(assetReqs) : CopiesIn(r, assetReqs) <= Cardinality(ItemsOf(r))
  /\ BagCardinality(assetReqs) <= stream_pos - 1
  /\ pageLog # <<>> => Len(pageLog) = 1 + Cardinality(Followed)
  /\ \A k \in 1..Len(pageLog) :
       pageLog[k].resp \in {"transport", "decode"} => k = Len(pageLog)

\* The only asset GET of an item failed in transport and the run ended without a
\* second one.
C16_Witness ==
  /\ pc = "exit_ok"
  /\ gifs[1] = GifA
  /\ \E k \in 1..Len(results) : results[k] = Outcome(GifA, "Transport")
  /\ CopiesIn(<<GifA.id, Unwrap(SourceUrl(GifA))>>, assetReqs) = 1
  /\ BagCardinality(assetReqs) = 1

\* The cursor chain of the feed ends in a page without next cursor.
FiniteChain == \E k \in 1..Len(feed) : feed[k].next = None

\* The run is over: pagination failed, or every item has its outcome and the failures
\* are reported.
RunOver ==
  \/ pc = "exit_err" /\ err # None
  \/ /\ pc = "exit_ok"
     /\ PaginationFinished
     /\ Len(results) = Len(gifs)
     /\ in_progress = EmptyBag
     /\ reports = Reports(results)

\* C17: on a finite cursor chain, when every network and file operation completes and
\* the futures are polled fairly, a run that is not over will be over.
C17_Terminates == (FiniteChain /\ ~RunOver) ~> RunOver

\* The run over the page of more items than the pool holds is over.
C17_Witness ==
  /\ feed = LargeFeed
  /\ RunOver
  /\ Len(results) = BufferLimit + Extra

\* The cursor chain of the feed never yields a page without next cursor.
EndlessChain == \A k \in 1..Len(feed) : IsSome(feed[k].next)

\* gifs has returned its list to main.
Returned == pc \in {"download", "exit_ok"}

\* C18: gifs returns a list only in the step that decodes a page without next cursor;
\* on a chain without such a page it never returns, and every decoded page is followed
\* by the request for its cursor.
C18_AbsentNextSoleTermination ==
  /\ [](EndlessChain => ~Returned)
  /\ [][(~Returned /\ Returned') => (pc = "page_text" /\ feed[url].next = None)]_vars
  /\ [][(last'.op = "PageTextDone" /\ last'.out = "next")
          => (pc' = "page_send" /\ Len(pageLog') = Len(pageLog) + 1)]_vars

\* On a cycle the seed URL is requested again after every page was decoded.
C18_Witness ==
  /\ EndlessChain
  /\ Len(pageLog) > Len(feed)
  /\ pageLog[Len(pageLog)].url = SeedUrl
  /\ \A k \in 1..(Len(pageLog) - 1) : pageLog[k].resp = "ok"

\* The futures in the pool that work on an item of this id.
InFlight(id) ==
  LET ts == {t \in BagToSet(in_progress) : t.gif.id = id}
  IN  IF ts = {} THEN 0 ELSE BagCardinality([t \in ts |-> in_progress[t]])

\* The items whose task has started are those of the list before the stream position.
StartedIsPrefix ==
  Returned =>
    /\ stream_pos \in 1..(Len(gifs) + 1)
    /\ \A k \in 1..Len(gifs) :
         Count(results, gifs[k].id) + InFlight(gifs[k].id)
           = Count(SubSeq(gifs, 1, stream_pos - 1), gifs[k].id)

\* C20: tasks start in list order: the started items are at all times a prefix of the
\* list, and the prefix only grows during a run.
C20_StartInListOrder ==
  /\ []StartedIsPrefix
  /\ [][run' = run => stream_pos' >= stream_pos]_vars

\* The third item of the list ended before the first one, which is still in flight.
C20_Witness ==
  /\ gifs = <<GifA, GifNoSource, GifB>>
  /\ results = <<Outcome(GifNoSource, PlanError(GifNoSource)), Outcome(GifB, "Ok")>>
  /\ \E t \in BagToSet(in_progress) : t.gif = GifA

====
